---- MODULE Spec2Model ----
(***************************************************************************)
(* Model of the resume-screener front end: the UploadForm component (input *)
(* validation and the asynchronous submission), the App component (owner   *)
(* of the ResultSet) and the Results component (filter, sort, stats).      *)
(*                                                                         *)
(* Strings whose content matters only through whitespace and length (the   *)
(* job description) are run-length encoded: a sequence of runs             *)
(* [ws |-> BOOLEAN, n |-> length], ws = TRUE for a run of whitespace.      *)
(* An error message is a record [code, arg]: code names the message text   *)
(* of the source, arg is the part of the text that varies (a file name,    *)
(* the service's message); NoError is the empty string "".                 *)
(***************************************************************************)
EXTENDS Integers, Sequences, FiniteSets, TLC

VARIABLES
    jd,               \* UploadForm state: job description text (run-length encoded)
    files,            \* UploadForm state: selected files, in selection order
    loading,          \* UploadForm state: a submission is in flight
    error,            \* UploadForm state: the displayed error message
    progress,         \* UploadForm state: the progress indicator
    results,          \* App state: the ResultSet
    submissionCount,  \* App state: number of successful submissions
    sortBy,           \* Results state: sort key
    filterThreshold,  \* Results state: minimum score shown
    expandedId,       \* Results state: expanded position, or Null
    inflight,         \* pending rankResumes calls, each with the values its closure captured
    published,        \* history: values passed to setProgress by the latest handleSubmit
    submitOutcome,    \* history: how the latest handleSubmit ended
    submittedJd,      \* history: jd when the latest handleSubmit was called
    submittedFiles,   \* history: files when the latest handleSubmit was called
    returned,         \* history: the collection the latest successful call returned
    replaced,         \* history: the ResultSet held just before that call returned
    refused,          \* history: clicks swallowed by the disabled button during this submission
    rejection,        \* history: the failure the latest call was rejected with
    lastToggle        \* history: the header clicked in the latest step, and expandedId before it

formVars == <<jd, files, loading, error, progress>>
appVars  == <<results, submissionCount>>
viewVars == <<sortBy, filterThreshold, expandedId, lastToggle>>
histVars == <<published, submitOutcome, submittedJd, submittedFiles, returned, replaced, refused,
             rejection>>
vars     == <<jd, files, loading, error, progress, results, submissionCount,
             sortBy, filterThreshold, expandedId, inflight,
             published, submitOutcome, submittedJd, submittedFiles, returned, replaced, refused,
             rejection, lastToggle>>

Null == -1    \* expandedId when nothing is expanded (null in the source)

(***************************************************************************)
(* Program constants                                                       *)
(***************************************************************************)
MinJdLength == 50
MaxResumes == 10
MaxFileSize == 5 * 1024 * 1024
ProgressValidated == 10
\* Faulty variant: the second checkpoint set below the first.
ProgressDispatched_low == ProgressValidated - 5
ProgressDispatched == 30
ProgressReceived == 100
ProgressReset == 0

(***************************************************************************)
(* Bounds of the model                                                     *)
(***************************************************************************)
ExtraFiles == 1        \* batches hold up to MaxResumes + ExtraFiles files
MaxSubmissions == 2    \* the remote call succeeds at most this many times
MaxRefused == 1        \* clicks on the disabled button counted per submission
MaxResults == 3        \* length of the result sets the view is explored on
ScoreMargin == 1       \* scores outside [0,100] the view is explored on, at each end

(***************************************************************************)
(* Strings: String.prototype.trim and .length on run-length encoded text   *)
(***************************************************************************)
RECURSIVE StrLen(_)
StrLen(s) == IF s = << >> THEN 0 ELSE Head(s).n + StrLen(Tail(s))

TrimStart(s) == IF s # << >> /\ Head(s).ws THEN Tail(s) ELSE s

TrimEnd(s) == IF s # << >> /\ s[Len(s)].ws THEN SubSeq(s, 1, Len(s) - 1) ELSE s

Trim(s) == TrimEnd(TrimStart(s))

EmptyString == << >>

Ws(k) == [ws |-> TRUE, n |-> k]
Ch(k) == [ws |-> FALSE, n |-> k]

\* Job descriptions the user may type or paste.
JdInputs ==
    { EmptyString,
      << Ws(3) >>,
      << Ws(MinJdLength + 10) >>,
      << Ch(MinJdLength - 40) >>,
      << Ws(5), Ch(MinJdLength - 1), Ws(5) >>,
      << Ch(MinJdLength) >>,
      << Ws(1), Ch(20), Ws(MinJdLength - 40), Ch(20), Ws(1) >> }

(***************************************************************************)
(* Files                                                                   *)
(***************************************************************************)
FileNames ==
    << "cv01.pdf", "cv02.pdf", "cv03.pdf", "cv04.pdf", "cv05.pdf", "cv06.pdf",
       "cv07.pdf", "cv08.pdf", "cv09.pdf", "cv10.pdf", "cv11.pdf", "cv12.pdf",
       "cv13.pdf", "cv14.pdf", "cv15.pdf", "cv16.pdf" >>

SmallSize == 1024 * 1024

\* A batch of n files.  The file at position first (0: none) is the first one
\* over the limit; with more, the last file of the batch is over the limit too,
\* by a different amount.  The other files are 1 MiB, or exactly at the limit
\* when atLimit.
Batch(n, first, more, atLimit) ==
    [i \in 1..n |->
        [name |-> FileNames[((i - 1) % Len(FileNames)) + 1],
         size |-> IF i = first THEN MaxFileSize + 1
                  ELSE IF more /\ first > 0 /\ i = n THEN 6 * 1024 * 1024
                  ELSE IF atLimit THEN MaxFileSize ELSE SmallSize]]

\* File selections the user may make: 0 to MaxResumes + ExtraFiles files.
FileBatches ==
    { Batch(n, first, more, FALSE) :
        n \in 0..(MaxResumes + ExtraFiles),
        first \in 0..(MaxResumes + ExtraFiles),
        more \in BOOLEAN }
    \cup { Batch(n, 0, FALSE, TRUE) : n \in 1..(MaxResumes + ExtraFiles) }

(***************************************************************************)
(* Error messages                                                          *)
(***************************************************************************)
NoError == [code |-> "", arg |-> ""]
Err(c) == [code |-> c, arg |-> ""]
FileTooLarge(name) == [code |-> "FileTooLarge", arg |-> name]
ServiceUnavailable(msg) == [code |-> "ServiceUnavailable", arg |-> msg]

(***************************************************************************)
(* UploadForm: validateInputs                                              *)
(***************************************************************************)
\* The for-of loop over files: the message for the first file, from position i
\* on, whose size exceeds the limit; NoError when the loop runs to its end.
\* Faulty variant: the size test written >= instead of >.
RECURSIVE SizeLoop_atLeast(_, _)
SizeLoop_atLeast(f, i) ==
    IF i > Len(f) THEN NoError
    ELSE IF f[i].size >= MaxFileSize THEN FileTooLarge(f[i].name)
    ELSE SizeLoop_atLeast(f, i + 1)

RECURSIVE SizeLoop(_, _)
SizeLoop(f, i) ==
    IF i > Len(f) THEN NoError
    ELSE IF f[i].size > MaxFileSize THEN FileTooLarge(f[i].name)
    ELSE SizeLoop(f, i + 1)

\* Faulty variant: the file sizes checked before the number of files.
validateInputs_sizeFirst(j, f) ==
    IF StrLen(Trim(j)) = 0 THEN Err("EmptyJobDescription")
    ELSE IF StrLen(Trim(j)) < MinJdLength THEN Err("JobDescriptionTooShort")
    ELSE IF Len(f) = 0 THEN Err("NoFilesProvided")
    ELSE IF SizeLoop(f, 1) # NoError THEN SizeLoop(f, 1)
    ELSE IF Len(f) > MaxResumes THEN Err("TooManyFiles")
    ELSE NoError

\* Faulty variant: the length test made on jd instead of jd.trim().
validateInputs_untrimmed(j, f) ==
    IF StrLen(Trim(j)) = 0 THEN Err("EmptyJobDescription")
    ELSE IF StrLen(j) < MinJdLength THEN Err("JobDescriptionTooShort")
    ELSE IF Len(f) = 0 THEN Err("NoFilesProvided")
    ELSE IF Len(f) > MaxResumes THEN Err("TooManyFiles")
    ELSE SizeLoop(f, 1)

\* The error validateInputs sets; NoError when it returns true.
validateInputs(j, f) ==
    IF StrLen(Trim(j)) = 0 THEN Err("EmptyJobDescription")
    ELSE IF StrLen(Trim(j)) < MinJdLength THEN Err("JobDescriptionTooShort")
    ELSE IF Len(f) = 0 THEN Err("NoFilesProvided")
    ELSE IF Len(f) > MaxResumes THEN Err("TooManyFiles")
    ELSE SizeLoop(f, 1)

(***************************************************************************)
(* api.js                                                                  *)
(***************************************************************************)
\* A rejected request: serviceError is error.response?.data?.error and
\* transport is error.message; "" stands for an absent or empty value.
Rejections ==
    { [serviceError |-> s, transport |-> t] :
        s \in {"", "No valid resumes found"},
        t \in {"", "timeout of 120000ms exceeded"} }

NoRejection == [serviceError |-> "", transport |-> "none"]

NoToggle == [index |-> Null, before |-> Null]

\* Faulty variant: error.message preferred to the service's error string.
InterceptorMessage_transportFirst(r) ==
    IF r.transport # "" THEN r.transport
    ELSE IF r.serviceError # "" THEN r.serviceError
    ELSE "Network error"

\* The response interceptor's message for a rejected request.
InterceptorMessage(r) ==
    IF r.serviceError # "" THEN r.serviceError
    ELSE IF r.transport # "" THEN r.transport
    ELSE "Network error"

\* response.data.results || response.data: the body is either an object
\* holding the array under "results" or the array itself.
rankResumesValue(data) == IF data.wrapped THEN data.body.results ELSE data.body

Body(wrapped, rs) ==
    [wrapped |-> wrapped, body |-> IF wrapped THEN [results |-> rs] ELSE rs]

Result(nm, sc) == [name |-> nm, score |-> sc]

\* Response bodies of the ranking service used while exploring submissions.
Responses ==
    { Body(TRUE, << Result("Ann", 80), Result("Bob", 50) >>),
      Body(FALSE, << Result("Cy", 50) >>),
      Body(TRUE, << >>) }

(***************************************************************************)
(* Initial state: useState defaults of the three components                *)
(***************************************************************************)
Init ==
    /\ jd = EmptyString
    /\ files = << >>
    /\ loading = FALSE
    /\ error = NoError
    /\ progress = 0
    /\ results = << >>
    /\ submissionCount = 0
    /\ sortBy = "score"
    /\ filterThreshold = 0
    /\ expandedId = Null
    /\ inflight = << >>
    /\ published = << >>
    /\ submitOutcome = "none"
    /\ submittedJd = EmptyString
    /\ submittedFiles = << >>
    /\ returned = << >>
    /\ replaced = << >>
    /\ refused = 0
    /\ rejection = NoRejection
    /\ lastToggle = NoToggle

(***************************************************************************)
(* UploadForm: the input handlers                                          *)
(***************************************************************************)
\* The history of the latest submission is dropped when the inputs are edited.
ForgetHistory ==
    /\ published' = << >>
    /\ submitOutcome' = "none"
    /\ submittedJd' = EmptyString
    /\ submittedFiles' = << >>
    /\ returned' = << >>
    /\ replaced' = << >>
    /\ refused' = 0
    /\ rejection' = NoRejection

\* disabled={loading} on the textarea and on the file input.
InputsDisabled == loading

\* onChange of the textarea: setJd(value); if (error) setError("").
handleJdChange(inputs) ==
    /\ ~InputsDisabled
    /\ \E v \in inputs :
        /\ v # jd
        /\ jd' = v
    /\ error' = IF error # NoError THEN NoError ELSE error
    /\ ForgetHistory
    /\ UNCHANGED <<files, loading, progress, inflight>>
    /\ UNCHANGED appVars
    /\ UNCHANGED viewVars

\* onChange of the file input: setFiles(e.target.files); setError("").
handleFileChange(inputs) ==
    /\ ~InputsDisabled
    /\ \E v \in inputs : files' = v
    /\ error' = NoError
    /\ ForgetHistory
    /\ UNCHANGED <<jd, loading, progress, inflight>>
    /\ UNCHANGED appVars
    /\ UNCHANGED viewVars

(***************************************************************************)
(* UploadForm: handleSubmit                                                *)
(***************************************************************************)
\* Faulty variant: the result of validateInputs ignored.
ValidationPassed_always(e) == TRUE

\* if (!validateInputs()) return;
ValidationPassed(e) == e = NoError

\* Faulty variant: the submit button left enabled during a submission.
SubmitDisabled_never == FALSE

\* disabled={loading} on the submit button.
SubmitDisabled == loading

\* A click on the submit button while it is disabled: no handler runs.
SubmitRefused ==
    /\ SubmitDisabled
    /\ refused < MaxRefused
    /\ refused' = refused + 1
    /\ UNCHANGED <<published, submitOutcome, submittedJd, submittedFiles, returned, replaced,
                   rejection>>
    /\ UNCHANGED <<formVars, inflight>>
    /\ UNCHANGED appVars
    /\ UNCHANGED viewVars

\* handleSubmit up to its await: setError(""), validateInputs(), and if that
\* passes setLoading(true), setProgress(10), setProgress(30) and the call of
\* rankResumes(jd, Array.from(files)).  The pending call keeps the values the
\* closure captured: jd, files and, through setResults, App's submissionCount.
handleSubmit ==
    /\ ~SubmitDisabled
    /\ LET e == validateInputs(jd, files) IN
        /\ submittedJd' = jd
        /\ submittedFiles' = files
        /\ returned' = << >>
        /\ replaced' = << >>
        /\ refused' = 0
        /\ rejection' = NoRejection
        /\ IF ValidationPassed(e)
           THEN /\ error' = NoError
                /\ loading' = TRUE
                /\ progress' = ProgressDispatched
                /\ published' = << ProgressValidated, ProgressDispatched >>
                /\ inflight' = Append(inflight,
                        [jd |-> jd, files |-> files, count |-> submissionCount])
                /\ submitOutcome' = "submitting"
           ELSE /\ error' = e
                /\ published' = << >>
                /\ submitOutcome' = "invalid"
                /\ UNCHANGED <<loading, progress, inflight>>
    /\ UNCHANGED <<jd, files>>
    /\ UNCHANGED appVars
    /\ UNCHANGED viewVars

RemoveAt(s, k) == SubSeq(s, 1, k - 1) \o SubSeq(s, k + 1, Len(s))

\* Faulty variant: the new results appended to the ones already held.
handleResultsUpdate_append(old, new) == old \o new

\* App.handleResultsUpdate: setResults(newResults).
handleResultsUpdate(old, new) == new

\* Faulty variant: the inputs cleared in the finally block, after failures too.
InputsAfterCall_alwaysCleared(succeeded, j, f) == << EmptyString, << >> >>

\* setJd(""), setFiles([]) after a successful call; nothing after a failed one.
InputsAfterCall(succeeded, j, f) ==
    IF succeeded THEN << EmptyString, << >> >> ELSE << j, f >>

\* Faulty variant: the indicator reset in the catch block only.
FinalProgress_onFailureOnly(succeeded) ==
    IF succeeded THEN ProgressReceived ELSE ProgressReset

\* finally: setProgress(0).
FinalProgress(succeeded) == ProgressReset

\* Faulty variant: setLoading(false) placed in the try block, after the await.
LoadingAfterCall_onSuccessOnly(succeeded) == IF succeeded THEN FALSE ELSE loading

\* finally: setLoading(false).
LoadingAfterCall(succeeded) == FALSE

\* The awaited call resolves: setProgress(100), setResults(data), setJd(""),
\* setFiles([]), then finally setLoading(false), setProgress(0).
\* Faulty variant: Results back at its useState defaults on every new array.
ViewStateOnNewResults_reset(v) == << "score", 0, Null >>

\* sortBy, filterThreshold and expandedId of Results when App passes it a new
\* results array: the component stays mounted and useState keeps its values.
ViewStateOnNewResults(v) == v

rankResumesResolved(responses) ==
    /\ submissionCount < MaxSubmissions
    /\ \E k \in DOMAIN inflight, d \in responses :
        LET data == rankResumesValue(d)
            req == inflight[k]
            inputs == InputsAfterCall(TRUE, jd, files)
        IN  /\ results' = handleResultsUpdate(results, data)
            /\ submissionCount' = req.count + 1
            /\ jd' = inputs[1]
            /\ files' = inputs[2]
            /\ returned' = data
            /\ replaced' = results
            /\ inflight' = RemoveAt(inflight, k)
    /\ loading' = LoadingAfterCall(TRUE)
    /\ progress' = FinalProgress(TRUE)
    /\ published' = published \o << ProgressReceived, FinalProgress(TRUE) >>
    /\ submitOutcome' = "succeeded"
    /\ refused' = 0
    /\ rejection' = NoRejection
    /\ UNCHANGED <<error, submittedJd, submittedFiles>>
    /\ LET v == ViewStateOnNewResults(<<sortBy, filterThreshold, expandedId>>)
       IN  /\ sortBy' = v[1]
           /\ filterThreshold' = v[2]
           /\ expandedId' = v[3]
    /\ UNCHANGED lastToggle

\* The awaited call rejects: setError(err.message || fallback), then finally
\* setLoading(false), setProgress(0).
\* Faulty variant: the catch block publishes an empty result set.
ResultsAfterFailure_cleared(rs) == << >>

\* App's results after the catch block, which does not call setResults.
ResultsAfterFailure(rs) == rs

rankResumesRejected ==
    /\ \E k \in DOMAIN inflight, r \in Rejections :
        LET msg == InterceptorMessage(r)
            inputs == InputsAfterCall(FALSE, jd, files)
        IN  /\ error' = ServiceUnavailable(
                    IF msg # "" THEN msg ELSE "Failed to rank resumes. Please try again.")
            /\ jd' = inputs[1]
            /\ files' = inputs[2]
            /\ rejection' = r
            /\ inflight' = RemoveAt(inflight, k)
    /\ loading' = LoadingAfterCall(FALSE)
    /\ progress' = FinalProgress(FALSE)
    /\ published' = Append(published, FinalProgress(FALSE))
    /\ submitOutcome' = "rejected"
    /\ refused' = 0
    /\ results' = ResultsAfterFailure(results)
    /\ UNCHANGED <<submittedJd, submittedFiles, returned, replaced>>
    /\ UNCHANGED submissionCount
    /\ UNCHANGED viewVars

(***************************************************************************)
(* Specification of the submission pipeline                                *)
(***************************************************************************)
Next ==
    \/ handleJdChange(JdInputs)
    \/ handleFileChange(FileBatches)
    \/ SubmitRefused
    \/ handleSubmit
    \/ rankResumesResolved(Responses)
    \/ rankResumesRejected

Spec == Init /\ [][Next]_vars

\* The pending call completes: axios resolves it, rejects it, or rejects it
\* when the timeout of 120000 ms set on apiClient runs out.
CallCompletes == rankResumesResolved(Responses) \/ rankResumesRejected

\* The submission pipeline with every pending call completing eventually.
SpecLive == Init /\ [][Next]_vars /\ WF_vars(CallCompletes)

(***************************************************************************)
(* Results: the derived view                                               *)
(***************************************************************************)
\* Collation rank of the names used, for String.prototype.localeCompare.
NameRank(nm) ==
    CASE nm = "Ann" -> 1
      [] nm = "Bob" -> 2
      [] nm = "Cy"  -> 3

Sign(x) == IF x < 0 THEN -1 ELSE IF x > 0 THEN 1 ELSE 0

localeCompare(a, b) == Sign(NameRank(a) - NameRank(b))

\* Faulty variant: the filter written > instead of >=.
FilterKeeps_strict(r, threshold) == r.score > threshold

\* The predicate of results.filter(...).
FilterKeeps(r, threshold) == r.score >= threshold

\* results.filter((r) => r.score >= filterThreshold)
filtered(rs, threshold) == SelectSeq(rs, LAMBDA r : FilterKeeps(r, threshold))

\* The comparator given to sort.
Compare(a, b, key) ==
    IF key = "score" THEN b.score - a.score
    ELSE IF key = "name" THEN localeCompare(a.name, b.name)
    ELSE 0

\* Faulty variant: x put in front of the elements it compares equal to.
Insert_beforeEqual(x, s, key) ==
    LET k == Cardinality({ i \in DOMAIN s : Compare(s[i], x, key) < 0 })
    IN  SubSeq(s, 1, k) \o << x >> \o SubSeq(s, k + 1, Len(s))

\* x put into the sorted sequence s behind every element that does not
\* compare greater than it.
Insert(x, s, key) ==
    LET k == Cardinality({ i \in DOMAIN s : Compare(s[i], x, key) <= 0 })
    IN  SubSeq(s, 1, k) \o << x >> \o SubSeq(s, k + 1, Len(s))

\* [...filtered].sort(comparator): Array.prototype.sort is a stable sort.
RECURSIVE sorted(_, _)
sorted(s, key) ==
    IF s = << >> THEN << >>
    ELSE Insert(s[Len(s)], sorted(SubSeq(s, 1, Len(s) - 1), key), key)

RECURSIVE SumScores(_)
SumScores(rs) == IF rs = << >> THEN 0 ELSE Head(rs).score + SumScores(Tail(rs))

Max(S) == CHOOSE x \in S : \A y \in S : y <= x

\* stats: avgScore is (sum / length).toFixed(1), held in tenths.  toFixed
\* gives the tenth nearest to the quotient and the larger one of two equally
\* near; for fewer than 20 integer scores such a tie is a multiple of 1/4 or
\* 1/8, which the floating-point quotient holds exactly.
stats(rs) ==
    [total |-> Len(rs),
     avgTenths |-> (20 * SumScores(rs) + Len(rs)) \div (2 * Len(rs)),
     topScore |-> Max({ rs[i].score : i \in DOMAIN rs })]

\* Faulty variant: the stats computed over the filtered results.
deriveView_statsOfFiltered(rs, key, threshold) ==
    [visible |-> sorted(filtered(rs, threshold), key),
     stats |-> IF filtered(rs, threshold) = << >>
               THEN [total |-> 0, avgTenths |-> 0, topScore |-> 0]
               ELSE stats(filtered(rs, threshold))]

\* What one render of Results computes from a non-empty results array.
deriveView(rs, key, threshold) ==
    [visible |-> sorted(filtered(rs, threshold), key), stats |-> stats(rs)]

\* Faulty variant: the thresholds compared with > instead of >=.
getScoreBadge_strict(score) ==
    IF score > 80 THEN "Excellent"
    ELSE IF score > 60 THEN "Good"
    ELSE IF score > 40 THEN "Fair"
    ELSE "Poor"

\* getScoreBadge: the category named on the badge of a result.
getScoreBadge(score) ==
    IF score >= 80 THEN "Excellent"
    ELSE IF score >= 60 THEN "Good"
    ELSE IF score >= 40 THEN "Fair"
    ELSE "Poor"

\* Faulty variant: results.sort(...) called on the prop itself.
ResultsAfterRender_sortedInPlace(rs, key, threshold) == sorted(rs, key)

\* The results array after a render of Results: filter returns a new array
\* and sort is called on a copy of it, so the array is left as it was.
ResultsAfterRender(rs, key, threshold) == rs

\* App mounts Results only once a submission has succeeded.
AppRendersResults == submissionCount > 0

\* Faulty variant: Results without its early return.
ResultsShowsPlaceholder_never(rs) == FALSE

\* The early return of Results: the placeholder instead of the list.
ResultsShowsPlaceholder(rs) == rs = << >>

\* What the results section of the page shows: nothing while App has not
\* mounted Results, the placeholder of the early return, or the controls, the
\* stats and the list computed by filter, sort and the stats expression.
Rendered ==
    IF ~AppRendersResults THEN "hidden"
    ELSE IF ResultsShowsPlaceholder(results) THEN "placeholder"
    ELSE "list"

\* The controls and the list are rendered once App has mounted Results
\* (submissionCount > 0) and results is not empty.
ViewRendered == Rendered = "list"

SortKeys == {"score", "name"}

\* The slider: min 0, max 100, step 5.
SliderValues == { 5 * k : k \in 0..20 }

\* onChange of the sort select: setSortBy(e.target.value).
setSortBy ==
    /\ ViewRendered
    /\ \E v \in SortKeys : sortBy' = v
    /\ results' = ResultsAfterRender(results, sortBy', filterThreshold)
    /\ lastToggle' = NoToggle
    /\ UNCHANGED <<filterThreshold, expandedId, inflight, submissionCount>>
    /\ UNCHANGED <<formVars, histVars>>

\* onChange of the slider: setFilterThreshold(Number(e.target.value)).
setFilterThreshold ==
    /\ ViewRendered
    /\ \E v \in SliderValues : filterThreshold' = v
    /\ results' = ResultsAfterRender(results, sortBy, filterThreshold')
    /\ lastToggle' = NoToggle
    /\ UNCHANGED <<sortBy, expandedId, inflight, submissionCount>>
    /\ UNCHANGED <<formVars, histVars>>

\* Faulty variant: a click always expands, also on the expanded result.
NextExpanded_neverCollapses(current, index) == index

\* expandedId === index ? null : index
NextExpanded(current, index) == IF current = index THEN Null ELSE index

\* onClick of a result header: setExpandedId(expandedId === index ? null : index).
toggleExpanded ==
    /\ ViewRendered
    /\ \E index \in 0..(Len(deriveView(results, sortBy, filterThreshold).visible) - 1) :
        /\ expandedId' = NextExpanded(expandedId, index)
        /\ lastToggle' = [index |-> index, before |-> expandedId]
    /\ results' = ResultsAfterRender(results, sortBy, filterThreshold)
    /\ UNCHANGED <<sortBy, filterThreshold, inflight, submissionCount>>
    /\ UNCHANGED <<formVars, histVars>>

(***************************************************************************)
(* Specification of the results view: the state after one successful       *)
(* submission, for every result set of up to MaxResults results            *)
(***************************************************************************)
ViewResults == { Result(nm, sc) : nm \in {"Ann", "Bob"}, sc \in {50, 85} }

ResultSets == UNION { [1..n -> ViewResults] : n \in 0..MaxResults }

\* Result sets of one result, for every score the service may assign and
\* ScoreMargin scores beyond each end of the range: scores are not validated.
ScoreProbes ==
    { << Result("Ann", sc) >> : sc \in (0 - ScoreMargin)..(100 + ScoreMargin) }

InitView ==
    /\ jd = EmptyString
    /\ files = << >>
    /\ loading = FALSE
    /\ error = NoError
    /\ progress = ProgressReset
    /\ results \in ResultSets \cup ScoreProbes
    /\ submissionCount = 1
    /\ sortBy = "score"
    /\ filterThreshold = 0
    /\ expandedId = Null
    /\ inflight = << >>
    /\ published = << ProgressValidated, ProgressDispatched, ProgressReceived, ProgressReset >>
    /\ submitOutcome = "succeeded"
    /\ submittedJd = << Ch(MinJdLength) >>
    /\ submittedFiles = Batch(1, 0, FALSE, FALSE)
    /\ returned = results
    /\ replaced = << >>
    /\ refused = 0
    /\ rejection = NoRejection
    /\ lastToggle = NoToggle

NextView ==
    \/ setSortBy
    \/ setFilterThreshold
    \/ toggleExpanded

SpecView == InitView /\ [][NextView]_vars

(***************************************************************************)
(* Specification of the whole page: the form, App and the results view,    *)
(* with one valid and one invalid value for each input of the form         *)
(***************************************************************************)
AppJdInputs == { EmptyString, << Ch(MinJdLength) >> }

AppFileBatches == { Batch(0, 0, FALSE, FALSE), Batch(1, 0, FALSE, FALSE) }

NextApp ==
    \/ handleJdChange(AppJdInputs)
    \/ handleFileChange(AppFileBatches)
    \/ SubmitRefused
    \/ handleSubmit
    \/ rankResumesResolved(Responses)
    \/ rankResumesRejected
    \/ setSortBy
    \/ setFilterThreshold
    \/ toggleExpanded

SpecApp == Init /\ [][NextApp]_vars

(***************************************************************************)
(* Properties of the submission pipeline                                   *)
(***************************************************************************)
Min(S) == CHOOSE x \in S : \A y \in S : x <= y

\* The precondition names, in the order the contract lists them.
PreconditionOrder ==
    << "EmptyJobDescription", "JobDescriptionTooShort", "NoFilesProvided",
       "TooManyFiles", "FileTooLarge" >>

\* The length of j without its leading and trailing whitespace.
TrimmedLength(j) ==
    LET inner == { i \in DOMAIN j : \E a \in 1..i, b \in i..Len(j) : ~j[a].ws /\ ~j[b].ws }
    IN  IF inner = {} THEN 0
        ELSE LET lens == [i \in DOMAIN j |-> IF i \in inner THEN j[i].n ELSE 0]
                 sum[i \in 0..Len(j)] == IF i = 0 THEN 0 ELSE sum[i - 1] + lens[i]
             IN  sum[Len(j)]

Oversize(f) == { i \in DOMAIN f : f[i].size > 5242880 }

\* The preconditions, by rank in PreconditionOrder, that the inputs violate.
Violated(j, f) ==
    { k \in 1..5 :
        \/ k = 1 /\ TrimmedLength(j) = 0
        \/ k = 2 /\ TrimmedLength(j) < 50
        \/ k = 3 /\ Len(f) = 0
        \/ k = 4 /\ Len(f) > 10
        \/ k = 5 /\ Oversize(f) # {} }

\* C1: a submit that fails validation reports the precondition that comes
\* first in the fixed order among all those its inputs violate, and nothing
\* else; more than 10 files with a valid job description give TooManyFiles
\* even when a file is over 5 MiB.
C1_FirstFailingPrecondition ==
    submitOutcome = "invalid" =>
        /\ Violated(submittedJd, submittedFiles) # {}
        /\ error.code = PreconditionOrder[Min(Violated(submittedJd, submittedFiles))]
        /\ (Len(submittedFiles) > 10 /\ TrimmedLength(submittedJd) >= 50
                => error.code = "TooManyFiles")

C1_Witness ==
    /\ submitOutcome = "invalid"
    /\ TrimmedLength(submittedJd) >= 50
    /\ Len(submittedFiles) > 10
    /\ Oversize(submittedFiles) # {}
    /\ error.code = "TooManyFiles"

\* C2: every remote ranking call in flight was made with inputs that pass all
\* five checks, and a submit that failed validation left no call in flight.
C2_DispatchOnlyWhenValid ==
    /\ \A k \in DOMAIN inflight : Violated(inflight[k].jd, inflight[k].files) = {}
    /\ submitOutcome # "none" /\ Violated(submittedJd, submittedFiles) # {}
            => inflight = << >> /\ ~loading /\ submitOutcome = "invalid"

C2_Witness ==
    /\ submitOutcome = "invalid"
    /\ error.code = "FileTooLarge"
    /\ submissionCount > 0
    /\ inflight = << >>

\* C3 as stated: after a submit whose job description has trimmed length < 50
\* the error is JobDescriptionTooShort and no call is in flight.
C3_Original ==
    submitOutcome # "none" /\ TrimmedLength(submittedJd) < 50
        => error.code = "JobDescriptionTooShort" /\ inflight = << >>

\* C3 amended: after a submit whose job description has trimmed length in
\* 1..49 the error is JobDescriptionTooShort, after one whose trimmed length
\* is 0 it is EmptyJobDescription, and in both cases no call is in flight.
C3_TooShortOrEmpty ==
    submitOutcome # "none" /\ TrimmedLength(submittedJd) < 50
        => /\ submitOutcome = "invalid"
           /\ inflight = << >>
           /\ error.code = IF TrimmedLength(submittedJd) = 0
                           THEN "EmptyJobDescription"
                           ELSE "JobDescriptionTooShort"

C3_Witness ==
    /\ submitOutcome = "invalid"
    /\ TrimmedLength(submittedJd) = 49
    /\ StrLen(submittedJd) >= 50
    /\ error.code = "JobDescriptionTooShort"
    /\ inflight = << >>

\* C4: with a valid job description and 1..10 files, submit fails with
\* FileTooLarge exactly when some file is larger than 5 MiB, and then names
\* the first such file in submission order.
C4_FirstOversizeFile ==
    /\ submitOutcome # "none"
    /\ TrimmedLength(submittedJd) >= 50
    /\ Len(submittedFiles) \in 1..10
    => IF Oversize(submittedFiles) = {}
       THEN submitOutcome # "invalid"
       ELSE /\ submitOutcome = "invalid"
            /\ error = FileTooLarge(submittedFiles[Min(Oversize(submittedFiles))].name)

C4_Witness ==
    /\ submitOutcome = "invalid"
    /\ TrimmedLength(submittedJd) >= 50
    /\ Len(submittedFiles) = 10
    /\ Cardinality(Oversize(submittedFiles)) = 2
    /\ Min(Oversize(submittedFiles)) = 4
    /\ error = FileTooLarge(submittedFiles[4].name)

\* C5: at most one remote ranking call is in flight, one is in flight exactly
\* while loading, and a step taken while a call stays in flight (a click on
\* the submit button included) changes neither the error, the progress, the
\* inputs nor the set of calls in flight.
C5_NoParallelSubmissions ==
    /\ [](Len(inflight) <= 1 /\ (loading <=> inflight # << >>))
    /\ [][loading /\ loading' => UNCHANGED <<error, progress, jd, files, inflight>>]_vars

C5_Witness ==
    /\ loading
    /\ refused > 0
    /\ Len(inflight) = 1

\* C6: after a successful call the controller is idle, the job description
\* and the file selection are empty and the ResultSet is exactly the
\* collection the call returned, whatever the ResultSet held before.
C6_SuccessReplacesResults ==
    submitOutcome = "succeeded" =>
        /\ ~loading
        /\ inflight = << >>
        /\ jd = EmptyString
        /\ files = << >>
        /\ results = returned

C6_Witness ==
    /\ submitOutcome = "succeeded"
    /\ replaced # << >>
    /\ returned # << >>
    /\ replaced # returned
    /\ results = returned

\* C7: after a submit that failed, in validation or in the remote call, the
\* controller is idle and the job description and the file selection are
\* the ones submit was called with.
C7_FailureKeepsInputs ==
    submitOutcome \in {"invalid", "rejected"} =>
        /\ ~loading
        /\ jd = submittedJd
        /\ files = submittedFiles

C7_Witness ==
    /\ submitOutcome = "rejected"
    /\ error.code = "ServiceUnavailable"
    /\ jd # EmptyString
    /\ files # << >>
    /\ jd = submittedJd
    /\ files = submittedFiles

\* The values published by the latest submit before the reset that ends it:
\* once the call has completed, the last value published is that reset.
Checkpoints ==
    IF submitOutcome \in {"succeeded", "rejected"}
    THEN SubSeq(published, 1, Len(published) - 1)
    ELSE published

NonDecreasing(s) == \A i \in DOMAIN s : \A k \in DOMAIN s : i <= k => s[i] <= s[k]

\* C8 as stated: the values one submit publishes are integers in [0,100] and
\* form a non-decreasing sequence, and 100 is not among them when the remote
\* call failed.
C8_Original ==
    /\ \A i \in DOMAIN published : published[i] \in 0..100
    /\ NonDecreasing(published)
    /\ submitOutcome = "rejected" => \A i \in DOMAIN published : published[i] # 100

\* C8 amended: the values a submit publishes are integers in [0,100]; those
\* published before the submission completes never decrease and are 10 then
\* 30 once the request is dispatched, followed by 100 when the call succeeded;
\* the submission then ends by publishing 0, after a success as after a
\* failure; 100 is never published when the call failed, and nothing is
\* published when validation fails.
C8_ProgressCheckpoints ==
    /\ \A i \in DOMAIN published : published[i] \in 0..100
    /\ NonDecreasing(Checkpoints)
    /\ submitOutcome = "submitting" => Checkpoints = << 10, 30 >> /\ progress = 30
    /\ submitOutcome = "succeeded" =>
            Checkpoints = << 10, 30, 100 >> /\ published[Len(published)] = 0
    /\ submitOutcome = "rejected" =>
            /\ Checkpoints = << 10, 30 >>
            /\ published[Len(published)] = 0
            /\ \A i \in DOMAIN published : published[i] # 100
    /\ submitOutcome = "invalid" => published = << >>

C8_Witness ==
    /\ submitOutcome = "succeeded"
    /\ published = << 10, 30, 100, 0 >>

\* C9: whenever no submission is in flight the progress indicator is 0, in
\* particular after a submit that failed in validation or in the remote call.
C9_ProgressZeroWhenIdle ==
    /\ ~loading => progress = 0
    /\ submitOutcome \in {"invalid", "rejected", "succeeded"} => ~loading /\ progress = 0

C9_Witness ==
    /\ submitOutcome = "rejected"
    /\ ~loading
    /\ progress = 0
    /\ Len(published) = 3

(***************************************************************************)
(* Properties of the results view                                          *)
(***************************************************************************)
Occurrences(s, x) == Cardinality({ i \in DOMAIN s : s[i] = x })

Elements(s) == { s[i] : i \in DOMAIN s }

visible == deriveView(results, sortBy, filterThreshold).visible

\* C10: for a non-empty ResultSet the visible list holds exactly the results
\* with score >= minScoreFilter, each as often as the ResultSet holds it, and
\* a larger minScoreFilter never gives a longer visible list.
C10_FilterExactAndMonotonic ==
    results # << >> =>
        /\ \A r \in Elements(results) \cup Elements(visible) :
                Occurrences(visible, r) =
                    IF r.score >= filterThreshold THEN Occurrences(results, r) ELSE 0
        /\ \A m \in SliderValues :
                m >= filterThreshold =>
                    Len(deriveView(results, sortBy, m).visible) <= Len(visible)

C10_Witness ==
    /\ Len(results) = 3
    /\ filterThreshold = 80
    /\ Len(visible) = 2
    /\ visible[1] = visible[2]
    /\ \E i \in DOMAIN results : results[i].score < filterThreshold

\* The results that pass the filter, in the order of the ResultSet.
Kept == SelectSeq(results, LAMBDA r : r.score >= filterThreshold)

\* C11: sorted by score the visible list is in descending order of score and
\* the results of each score appear in the order they have in the ResultSet;
\* sorted by name the results of each name appear in the order they have in
\* the ResultSet.
C11_StableSort ==
    results # << >> =>
        /\ sortBy = "score" =>
            /\ \A i \in DOMAIN visible : \A k \in DOMAIN visible :
                    i <= k => visible[i].score >= visible[k].score
            /\ \A x \in Elements(results) :
                    SelectSeq(visible, LAMBDA r : r.score = x.score)
                        = SelectSeq(Kept, LAMBDA r : r.score = x.score)
        /\ sortBy = "name" =>
            \A x \in Elements(results) :
                SelectSeq(visible, LAMBDA r : r.name = x.name)
                    = SelectSeq(Kept, LAMBDA r : r.name = x.name)

C11_Witness ==
    /\ sortBy = "score"
    /\ filterThreshold = 50
    /\ Len(results) = 3
    /\ Len(visible) = 3
    /\ visible[1] = results[2]
    /\ visible[2] = results[1]
    /\ visible[3] = results[3]
    /\ visible[2].score = visible[3].score
    /\ visible[2].name # visible[3].name

shownStats == deriveView(results, sortBy, filterThreshold).stats

ScoreTotal(rs) ==
    LET sum[i \in 0..Len(rs)] == IF i = 0 THEN 0 ELSE sum[i - 1] + rs[i].score
    IN  sum[Len(rs)]

Abs(x) == IF x < 0 THEN 0 - x ELSE x

\* C12: for a non-empty ResultSet and every sort key and minScoreFilter, total
\* is the number of results, topScore is the largest score in the ResultSet
\* and avgScore is a multiple of 0.1 nearest to the mean score of the whole
\* ResultSet.
C12_StatsOverWholeResultSet ==
    results # << >> =>
        \A key \in SortKeys, m \in SliderValues :
            LET st == deriveView(results, key, m).stats IN
            /\ st.total = Cardinality(DOMAIN results)
            /\ \E i \in DOMAIN results : results[i].score = st.topScore
            /\ \A i \in DOMAIN results : results[i].score <= st.topScore
            /\ 2 * Abs(st.avgTenths * Len(results) - 10 * ScoreTotal(results))
                    <= Len(results)

C12_Witness ==
    /\ Len(results) = 3
    /\ filterThreshold = 100
    /\ visible = << >>
    /\ shownStats.total = 3
    /\ shownStats.topScore = 85
    /\ shownStats.avgTenths = 617

\* C13: whatever sort keys, filter values and expansions have been chosen
\* since, the ResultSet holds the elements the submission returned, in the
\* order it returned them.
C13_ResultSetNotMutated ==
    /\ Len(results) = Len(returned)
    /\ \A i \in DOMAIN results : results[i] = returned[i]

C13_Witness ==
    /\ Len(results) = 3
    /\ results[1].score < results[2].score
    /\ NameRank(results[1].name) > NameRank(results[2].name)
    /\ sortBy = "name"
    /\ filterThreshold = 85
    /\ expandedId = 0
    /\ visible # results
    /\ results = returned

\* C14: the badge of every result shown names exactly one of the four
\* categories: Excellent exactly when score >= 80, Good exactly when
\* 60 <= score < 80, Fair exactly when 40 <= score < 60 and Poor exactly when
\* score < 40; 80 is Excellent, 79 and 60 are Good, 40 is Fair, 39 is Poor.
C14_BadgeThresholds ==
    /\ results # << >> => \A i \in DOMAIN visible :
        LET sc == visible[i].score
            badge == getScoreBadge(sc)
        IN  /\ badge \in {"Excellent", "Good", "Fair", "Poor"}
            /\ badge = "Excellent" <=> sc >= 80
            /\ badge = "Good" <=> (60 <= sc /\ sc < 80)
            /\ badge = "Fair" <=> (40 <= sc /\ sc < 60)
            /\ badge = "Poor" <=> sc < 40
    /\ getScoreBadge(80) = "Excellent"
    /\ getScoreBadge(79) = "Good"
    /\ getScoreBadge(60) = "Good"
    /\ getScoreBadge(40) = "Fair"
    /\ getScoreBadge(39) = "Poor"

C14_Witness ==
    /\ Len(results) = 1
    /\ Len(visible) = 1
    /\ visible[1].score = 60
    /\ filterThreshold = 60
    /\ getScoreBadge(visible[1].score) = "Good"

\* The positions of the visible list whose card is rendered expanded.
ExpandedCards == { index \in 0..(Len(visible) - 1) : expandedId = index }

\* C15: at most one card is expanded; after a click on the header at index i
\* the expanded index is i when nothing or another index was expanded before,
\* and no index is expanded when i itself was.
C15_SingleExpansion ==
    /\ results # << >> => Cardinality(ExpandedCards) <= 1
    /\ lastToggle # NoToggle =>
        IF lastToggle.before = lastToggle.index
        THEN expandedId = Null /\ (results # << >> => ExpandedCards = {})
        ELSE expandedId = lastToggle.index
                /\ (results # << >> => ExpandedCards = {lastToggle.index})

C15_Witness ==
    /\ lastToggle = [index |-> 1, before |-> 1]
    /\ expandedId = Null
    /\ Len(visible) = 3

\* C16: every submission that is in flight is eventually over, with loading
\* false, and whenever none is in flight submit can be called.
C16_SubmitReturnsToIdle ==
    /\ loading ~> ~loading
    /\ [](~loading => ENABLED handleSubmit)

C16_Witness ==
    /\ submitOutcome = "succeeded"
    /\ submissionCount = 2
    /\ ~loading
    /\ ENABLED handleSubmit

\* C17: after a rejected call the error is ServiceUnavailable with a message
\* that is not empty, and that is the service's error string whenever the
\* error response carried one.
C17_FailureMessage ==
    submitOutcome = "rejected" =>
        /\ error.code = "ServiceUnavailable"
        /\ error.arg # ""
        /\ rejection.serviceError # "" => error.arg = rejection.serviceError

C17_Witness ==
    /\ submitOutcome = "rejected"
    /\ rejection.serviceError # ""
    /\ rejection.transport # ""
    /\ error = ServiceUnavailable(rejection.serviceError)

\* C18 as stated: filter, sort and stats run only on a non-empty ResultSet,
\* and whenever the ResultSet is empty the placeholder is shown.
C18_Original ==
    /\ Rendered = "list" => results # << >>
    /\ results = << >> => Rendered = "placeholder"

\* C18: filter, sort and stats run only on a non-empty ResultSet; once a
\* submission has succeeded an empty ResultSet shows the placeholder; before
\* the first successful submission the ResultSet is empty and the results
\* section shows nothing, neither the list nor the placeholder.
C18_PlaceholderOnceSubmitted ==
    /\ Rendered = "list" => results # << >>
    /\ (results = << >> /\ submissionCount > 0) => Rendered = "placeholder"
    /\ submissionCount = 0 => (results = << >> /\ Rendered = "hidden")

C18_Witness ==
    /\ submitOutcome = "succeeded"
    /\ submissionCount > 0
    /\ returned = << >>
    /\ results = << >>
    /\ Rendered = "placeholder"

\* C20: a step that does not complete a submit successfully - a submit that
\* fails validation, the dispatch of a valid one, the failure of its remote
\* call - leaves the ResultSet held by App and the count of successful
\* submissions as they were.
C20_FailedSubmitKeepsResults ==
    [][submitOutcome' # "succeeded" => UNCHANGED <<results, submissionCount>>]_vars

C20_Witness ==
    /\ submitOutcome = "rejected"
    /\ submissionCount = 1
    /\ results # << >>
    /\ Rendered = "list"

\* C19: a step that changes sortKey changes nothing else of the page, and so
\* for minScoreFilter and for expandedIndex: each changes only by its own
\* control.  A step that replaces the ResultSet or counts a submission leaves
\* all three as they were, and a step that changes expandedIndex leaves the
\* visible list and the stats as they were.
C19_ViewStateFrame ==
    [][ /\ sortBy' # sortBy =>
            UNCHANGED <<filterThreshold, expandedId, formVars, appVars, inflight>>
        /\ filterThreshold' # filterThreshold =>
            UNCHANGED <<sortBy, expandedId, formVars, appVars, inflight>>
        /\ expandedId' # expandedId =>
            /\ UNCHANGED <<sortBy, filterThreshold, formVars, appVars, inflight>>
            /\ visible' = visible
            /\ shownStats' = shownStats
        /\ (results' # results \/ submissionCount' # submissionCount) =>
            UNCHANGED <<sortBy, filterThreshold, expandedId>> ]_vars

\* The second result set is empty, so no control of the view is rendered: the
\* view state is the one chosen on the first result set.
C19_Witness ==
    /\ submitOutcome = "succeeded"
    /\ submissionCount = 2
    /\ replaced # << >>
    /\ results = << >>
    /\ sortBy = "name"
    /\ filterThreshold = 50
    /\ expandedId = 1

====
